---- MODULE Spec2Model ----
(***************************************************************************)
(* ColumnScrollLogger (src/yourcode.js): on every scroll or resize signal  *)
(* the handler checkColumnPosition recomputes the scroll direction and,    *)
(* for every captured .column element, dispatches the once-only events     *)
(* columnStartVisible / columnCenterVisible / columnEndVisible whose       *)
(* listeners write one console line each.                                  *)
(*                                                                         *)
(* The host page (scroll offset, viewport height, element rectangles,      *)
(* computed display, parent links) is state of the model that the host     *)
(* changes between handler runs; the handler only reads it.                *)
(***************************************************************************)
EXTENDS Integers, Sequences, FiniteSets, Bags, TLC

(***************************************************************************)
(* Bounds of the host page.                                                *)
(***************************************************************************)
\* largest vertical scroll offset the host reports (the smallest is -1,
\* an overscroll)
MaxScroll == 2
\* largest window.innerHeight
MaxViewport == 2
\* largest rect.top (the smallest is -1, above the viewport)
MaxTop == 1
\* largest rect.height
MaxHeight == 2

ScrollOffsets == (-1) .. MaxScroll
Viewports == 1 .. MaxViewport
Rects == [top : (-1) .. MaxTop, height : 0 .. MaxHeight]
\* the rectangles of the two-column page: on or below the viewport's top edge
LowRects == {r \in Rects : r.top >= 0 /\ r.height <= 1}

(***************************************************************************)
(* The page: a container element and two .column elements.  NoParent is    *)
(* the null parentElement of the topmost element.                          *)
(***************************************************************************)
Nodes == {"page", "A", "B"}
NoParent == "null"
PositionSet == {"start", "center", "end"}
Displays == {"block", "none"}

\* JavaScript null for the numeric field lastScrollStart, and a number n as <<n>>
Null == <<>>
Num(n) == <<n>>

VARIABLES
    columns,          \* this.columns: the NodeList captured by the constructor
    scrollDirection,  \* this.scrollDirection: "null", "down" or "up"
    lastScrollStart,  \* this.lastScrollStart: Null or Num(n)
    listeners,        \* listeners[el][pos]: the once-listener is still attached
    console,          \* the bag of lines written by console.log
    pageYOffset,      \* host: window.pageYOffset
    innerHeight,      \* host: window.innerHeight
    rect,             \* host: rect[el] = [top, height] of getBoundingClientRect
    display,          \* host: getComputedStyle(n).display
    parentElement,    \* host: n.parentElement
    id,               \* host: el.id
    faulty,           \* host: the elements whose geometry and style queries throw
    ran,              \* the latest task of the event loop ran checkColumnPosition
    emitted,          \* the listener calls of the latest task, in order
    thrown            \* the latest task ended with an uncaught exception

vars == <<columns, scrollDirection, lastScrollStart, listeners, console,
          pageYOffset, innerHeight, rect, display, parentElement, id, faulty,
          ran, emitted, thrown>>

(***************************************************************************)
(* logStatus(position, id): the line console.log receives, a template      *)
(* literal split around the substituted id.                                *)
(***************************************************************************)
Messages(ident) ==
    [start  |-> [prefix |-> "Column with id:", id |-> ident,
                 suffix |-> " started to become visible on the page."],
     center |-> [prefix |-> "Column with id:", id |-> ident,
                 suffix |-> " is now more than 50% visible on the page."],
     end    |-> [prefix |-> "Column with id:", id |-> ident,
                 suffix |-> " is now fully visible on the page."]]

LogStatus(position, ident) == Messages(ident)[position]

(***************************************************************************)
(* getColumns: the listener attached to el for the event of `position`     *)
(* calls logStatus(position, id) with the id read when it was attached.    *)
(***************************************************************************)
\* the end listener attached with the center listener's callback
ListenerCopied(el, position) ==
    LogStatus(IF position = "end" THEN "center" ELSE position, id[el])

Listener(el, position) == LogStatus(position, id[el])

\* a listener attached without { once: true } stays attached
OnceKeeps(el, position, ls) == ls

\* addEventListener(type, listener, { once: true }): the listener is removed
\* when it is invoked
OnceRemoves(el, position, ls) == [ls EXCEPT ![el][position] = FALSE]

\* events created with { bubbles: true }: after el's own listener, the
\* listener of every ancestor that has one for the type runs too
RECURSIVE BubbleFrom(_, _, _)
BubbleFrom(n, position, h) ==
    LET g == IF n \in DOMAIN h.listeners /\ h.listeners[n][position]
             THEN [h EXCEPT
                     !.listeners = [h.listeners EXCEPT ![n][position] = FALSE],
                     !.console = h.console (+) SetToBag({LogStatus(position, id[n])}),
                     !.emitted = Append(h.emitted,
                                        [el |-> n, position |-> position,
                                         line |-> LogStatus(position, id[n])])]
             ELSE h
    IN  IF parentElement[n] = NoParent THEN g
        ELSE BubbleFrom(parentElement[n], position, g)

DispatchEventBubbles(el, position, h) == BubbleFrom(el, position, h)

(***************************************************************************)
(* el.dispatchEvent(this.events[position]) on the handler state h: the     *)
(* events do not bubble, so only el's own listener for that type runs.     *)
(***************************************************************************)
DispatchEvent(el, position, h) ==
    IF h.listeners[el][position]
    THEN [h EXCEPT
            !.listeners = OnceRemoves(el, position, h.listeners),
            !.console = h.console (+) SetToBag({Listener(el, position)}),
            !.emitted = Append(h.emitted,
                               [el |-> el, position |-> position,
                                line |-> Listener(el, position)])]
    ELSE h

(***************************************************************************)
(* isHidden(el): "true" when el or an ancestor has display none; falls off *)
(* the end (undefined) at an element with no parent.                       *)
(***************************************************************************)
\* only the element's own display is read
IsHiddenOwn(el) == IF display[el] = "none" THEN "true" ELSE "undefined"

\* the walk stops after the element's parent
IsHiddenOneLevel(el) ==
    IF display[el] = "none" THEN "true"
    ELSE IF parentElement[el] # NoParent /\ display[parentElement[el]] = "none"
    THEN "true"
    ELSE "undefined"

RECURSIVE IsHidden(_)
IsHidden(el) ==
    IF display[el] = "none" THEN "true"
    ELSE IF parentElement[el] # NoParent THEN IsHidden(parentElement[el])
    ELSE "undefined"

\* !value
Not(value) == value \notin {"true"}

\* a query of isHidden(el)'s walk throws
RECURSIVE IsHiddenThrows(_)
IsHiddenThrows(el) ==
    \/ el \in faulty
    \/ /\ display[el] # "none"
       /\ parentElement[el] # NoParent
       /\ IsHiddenThrows(parentElement[el])

\* el.getBoundingClientRect()
GetBoundingClientRect(el) ==
    [top |-> rect[el].top, height |-> rect[el].height,
     bottom |-> rect[el].top + rect[el].height]

\* the closed interval
InViewportClosed(x, viewportHeight) == (0 <= x) /\ (x <= viewportHeight)

InViewport(x, viewportHeight) == (0 < x) /\ (x < viewportHeight)

\* the up branch a copy of the down branch
PredictatesNoFlip(el, viewportHeight) ==
    LET r == [top |-> rect[el].top, height |-> rect[el].height,
              bottom |-> rect[el].top + rect[el].height]
        same == [isStartVisible |-> InViewport(r.top, viewportHeight),
                 isCenterVisible |-> InViewport(2 * r.top + r.height, 2 * viewportHeight),
                 isEndVisible |-> InViewport(r.bottom, viewportHeight)]
    IN  [down |-> same, up |-> same]

(***************************************************************************)
(* predictates: colCenter = colStart + rect.height / 2 is kept exact by    *)
(* comparing its double with the doubled bounds.                           *)
(***************************************************************************)
Predictates(el, viewportHeight) ==
    LET r == GetBoundingClientRect(el)
        colStart == r.top
        colCenter2 == 2 * colStart + r.height
        colEnd == r.bottom
    IN  [down |-> [isStartVisible |-> InViewport(colStart, viewportHeight),
                   isCenterVisible |-> InViewport(colCenter2, 2 * viewportHeight),
                   isEndVisible |-> InViewport(colEnd, viewportHeight)],
         up   |-> [isStartVisible |-> InViewport(colEnd, viewportHeight),
                   isCenterVisible |-> InViewport(colCenter2, 2 * viewportHeight),
                   isEndVisible |-> InViewport(colStart, viewportHeight)]]

\* the three tests chained with else: only the first that holds dispatches
DispatchFirstOnly(el, dir, viewportHeight, h) ==
    LET p == Predictates(el, viewportHeight)[dir]
    IN  IF p.isStartVisible THEN DispatchEvent(el, "start", h)
        ELSE IF p.isCenterVisible THEN DispatchEvent(el, "center", h)
        ELSE IF p.isEndVisible THEN DispatchEvent(el, "end", h)
        ELSE h

\* the callback returning as soon as one of its dispatches ran a listener
DispatchUntilDelivered(el, dir, viewportHeight, h) ==
    LET p == Predictates(el, viewportHeight)[dir]
        h1 == IF p.isStartVisible THEN DispatchEvent(el, "start", h) ELSE h
        h2 == IF p.isCenterVisible THEN DispatchEvent(el, "center", h1) ELSE h1
        h3 == IF p.isEndVisible THEN DispatchEvent(el, "end", h2) ELSE h2
    IN  IF h1 # h THEN h1 ELSE IF h2 # h1 THEN h2 ELSE h3

\* the three guarded dispatches of one element, in source order
DispatchVisible(el, dir, viewportHeight, h) ==
    LET p == Predictates(el, viewportHeight)[dir]
        h1 == IF p.isStartVisible THEN DispatchEvent(el, "start", h) ELSE h
        h2 == IF p.isCenterVisible THEN DispatchEvent(el, "center", h1) ELSE h1
        h3 == IF p.isEndVisible THEN DispatchEvent(el, "end", h2) ELSE h2
    IN  h3

\* the body of the forEach callback for el
ColumnCallback(el, dir, viewportHeight, h) ==
    IF el \in faulty \/ IsHiddenThrows(el)
    THEN [h EXCEPT !.thrown = TRUE]
    ELSE LET isVisible == Not(IsHidden(el))
         IN  IF isVisible THEN DispatchVisible(el, dir, viewportHeight, h) ELSE h

\* the columns walked from the last to the first
RECURSIVE ForEachReversed(_, _, _, _, _)
ForEachReversed(cols, i, dir, viewportHeight, h) ==
    IF i > Len(cols) \/ h.thrown THEN h
    ELSE ForEachReversed(cols, i + 1, dir, viewportHeight,
                         ColumnCallback(cols[Len(cols) + 1 - i], dir,
                                        viewportHeight, h))

\* this.columns.forEach(...) from index i: an exception ends the loop
RECURSIVE ForEach(_, _, _, _, _)
ForEach(cols, i, dir, viewportHeight, h) ==
    IF i > Len(cols) \/ h.thrown THEN h
    ELSE ForEach(cols, i + 1, dir, viewportHeight,
                 ColumnCallback(cols[i], dir, viewportHeight, h))

(***************************************************************************)
(* getScrollDirection                                                      *)
(***************************************************************************)
\* document.documentElement.scrollTop reports the same offset as pageYOffset
ScrollTop(y) == y
\* window.pageYOffset || document.documentElement.scrollTop
St(y) == IF y # 0 THEN y ELSE ScrollTop(y)
\* the number a comparison sees for a field that may be null
ToNumber(v) == IF v = Null THEN 0 ELSE v[1]

\* the comparison written >=
DirectionOfOrEqual(st, last) == IF st >= ToNumber(last) THEN "down" ELSE "up"
\* the offset stored as read
UnclampedOffset(st) == st

\* an unchanged offset keeping the direction of the run before
DirectionOfSticky(st, last) ==
    IF st > ToNumber(last) THEN "down"
    ELSE IF st = ToNumber(last) /\ scrollDirection # "null" THEN scrollDirection
    ELSE "up"

DirectionOf(st, last) == IF st > ToNumber(last) THEN "down" ELSE "up"
ClampedOffset(st) == IF st <= 0 THEN 0 ELSE st

\* document.querySelectorAll('.column'): the .column elements now in the
\* document (those the host lays out), in document order
QuerySelectorAll == SelectSeq(<<"A", "B">>, LAMBDA n : n \in DOMAIN rect)

\* the handler calling getColumns again before it evaluates: the columns are
\* captured anew and every one of them gets fresh listeners
CheckColumnPositionRescan(y, vh) ==
    LET st == St(y)
        dir == DirectionOf(st, lastScrollStart)
        cols == QuerySelectorAll
        h0 == [listeners |-> [el \in {cols[i] : i \in 1 .. Len(cols)} |->
                                  [p \in PositionSet |-> TRUE]],
               console |-> console, emitted |-> <<>>, thrown |-> FALSE]
        h == ForEach(cols, 1, dir, vh, h0)
    IN  /\ scrollDirection' = dir
        /\ lastScrollStart' = Num(ClampedOffset(st))
        /\ listeners' = h.listeners
        /\ console' = h.console
        /\ emitted' = h.emitted
        /\ thrown' = h.thrown
        /\ ran' = TRUE
        /\ columns' = cols

(***************************************************************************)
(* checkColumnPosition while the host reports offset y and height vh.      *)
(***************************************************************************)
CheckColumnPosition(y, vh) ==
    LET st == St(y)
        dir == DirectionOf(st, lastScrollStart)
        h0 == [listeners |-> listeners, console |-> console,
               emitted |-> <<>>, thrown |-> FALSE]
        h == ForEach(columns, 1, dir, vh, h0)
    IN  /\ scrollDirection' = dir
        /\ lastScrollStart' = Num(ClampedOffset(st))
        /\ listeners' = h.listeners
        /\ console' = h.console
        /\ emitted' = h.emitted
        /\ thrown' = h.thrown
        /\ ran' = TRUE
        /\ UNCHANGED columns

(***************************************************************************)
(* Construction: getColumns attaches the three once-listeners to every     *)
(* captured column; nothing has run yet.                                   *)
(***************************************************************************)
\* the page's parentElement links: both columns directly in the container
FlatPage == [n \in Nodes |-> IF n = "page" THEN NoParent ELSE "page"]
\* column B inside column A inside the container
NestedPage == [n \in Nodes |-> IF n = "page" THEN NoParent
                               ELSE IF n = "A" THEN "page" ELSE "A"]

InitOn(cols, rects, parents) ==
    /\ columns = cols
    /\ scrollDirection = "null"
    /\ lastScrollStart = Null
    /\ listeners = [el \in {cols[i] : i \in 1 .. Len(cols)} |->
                        [p \in PositionSet |-> TRUE]]
    /\ console = EmptyBag
    /\ pageYOffset = 0
    /\ innerHeight \in Viewports
    /\ rect \in [{cols[i] : i \in 1 .. Len(cols)} -> rects]
    /\ display = [n \in Nodes |-> "block"]
    /\ parentElement = parents
    /\ id = [n \in Nodes |-> IF n = "A" THEN "col-a" ELSE IF n = "B" THEN "col-b" ELSE ""]
    /\ faulty = {}
    /\ ran = FALSE
    /\ emitted = <<>>
    /\ thrown = FALSE

InitWith(cols, rects) == InitOn(cols, rects, FlatPage)

(***************************************************************************)
(* The signals: the host changes the offset (scroll) or the viewport       *)
(* height (resize) and calls the handler.                                  *)
(***************************************************************************)
Scroll(y) ==
    /\ y # pageYOffset
    /\ pageYOffset' = y
    /\ UNCHANGED <<innerHeight, rect, display, parentElement, id, faulty>>
    /\ CheckColumnPosition(y, innerHeight)

Resize(vh) ==
    /\ vh # innerHeight
    /\ innerHeight' = vh
    /\ UNCHANGED <<pageYOffset, rect, display, parentElement, id, faulty>>
    /\ CheckColumnPosition(pageYOffset, vh)

\* a task of the host that runs no handler
HostTask ==
    /\ ran' = FALSE
    /\ emitted' = <<>>
    /\ thrown' = FALSE
    /\ UNCHANGED <<columns, scrollDirection, lastScrollStart, listeners, console>>

\* the page lays el out at rectangle r
Layout(el, r) ==
    /\ rect[el] # r
    /\ rect' = [rect EXCEPT ![el] = r]
    /\ UNCHANGED <<pageYOffset, innerHeight, display, parentElement, id, faulty>>
    /\ HostTask

\* the page changes the display of n
SetDisplay(n, d) ==
    /\ display[n] # d
    /\ display' = [display EXCEPT ![n] = d]
    /\ UNCHANGED <<pageYOffset, innerHeight, rect, parentElement, id, faulty>>
    /\ HostTask

\* the host starts or stops failing the queries of n
HostFault(n) ==
    /\ faulty' = IF n \in faulty THEN faulty \ {n} ELSE faulty \cup {n}
    /\ UNCHANGED <<pageYOffset, innerHeight, rect, display, parentElement, id>>
    /\ HostTask

\* the page adds the .column element n to the document, laid out at r
AppendColumn(n, r) ==
    /\ n \notin DOMAIN rect
    /\ rect' = rect @@ (n :> r)
    /\ UNCHANGED <<pageYOffset, innerHeight, display, parentElement, id, faulty>>
    /\ HostTask

Tracked == {columns[i] : i \in 1 .. Len(columns)}

(***************************************************************************)
(* Spec: a page with one tracked column inside the container.              *)
(***************************************************************************)
Init == InitWith(<<"A">>, Rects)

Next ==
    \/ \E y \in ScrollOffsets : Scroll(y)
    \/ \E vh \in Viewports : Resize(vh)
    \/ \E el \in Tracked, r \in Rects : Layout(el, r)
    \/ \E n \in {"page"} \cup Tracked, d \in Displays : SetDisplay(n, d)

Spec == Init /\ [][Next]_vars

(***************************************************************************)
(* PageSpec: a page with the two tracked columns A and B, in that order.   *)
(***************************************************************************)
PageInit == InitWith(<<"A", "B">>, LowRects)

PageNext ==
    \/ \E y \in ScrollOffsets : Scroll(y)
    \/ \E vh \in Viewports : Resize(vh)
    \/ \E el \in Tracked, r \in LowRects : Layout(el, r)
    \/ \E n \in {"page"} \cup Tracked, d \in Displays : SetDisplay(n, d)

PageSpec == PageInit /\ [][PageNext]_vars

(***************************************************************************)
(* FaultSpec: the two-column page on a host whose queries may throw.       *)
(***************************************************************************)
FaultNext ==
    \/ \E y \in ScrollOffsets : Scroll(y)
    \/ \E vh \in Viewports : Resize(vh)
    \/ \E el \in Tracked, r \in LowRects : Layout(el, r)
    \/ \E n \in Tracked : HostFault(n)

FaultSpec == PageInit /\ [][FaultNext]_vars

(***************************************************************************)
(* LateSpec: a page that holds column A when the logger is constructed and *)
(* gets column B afterwards.                                               *)
(***************************************************************************)
LateInit == InitWith(<<"A">>, LowRects)

LateNext ==
    \/ \E y \in ScrollOffsets : Scroll(y)
    \/ \E vh \in Viewports : Resize(vh)
    \/ \E el \in DOMAIN rect, r \in LowRects : Layout(el, r)
    \/ \E n \in {"page"} \cup DOMAIN rect, d \in Displays : SetDisplay(n, d)
    \/ \E r \in LowRects : AppendColumn("B", r)

LateSpec == LateInit /\ [][LateNext]_vars

(***************************************************************************)
(* NestSpec: the two-column page with column B nested inside column A.     *)
(***************************************************************************)
NestInit == InitOn(<<"A", "B">>, LowRects, NestedPage)

NestNext ==
    \/ \E y \in ScrollOffsets : Scroll(y)
    \/ \E vh \in Viewports : Resize(vh)
    \/ \E el \in Tracked, r \in LowRects : Layout(el, r)
    \/ \E n \in {"page"} \cup Tracked, d \in Displays : SetDisplay(n, d)

NestSpec == NestInit /\ [][NestNext]_vars

(***************************************************************************)
(* Vocabulary of the properties, stated on the host page and on what the   *)
(* latest handler run emitted.                                             *)
(***************************************************************************)
\* the latest run delivered the notification of (el, pos)
Fired(el, pos) ==
    \E i \in DOMAIN emitted : emitted[i].el = el /\ emitted[i].position = pos

\* el and its ancestors up to the root
RECURSIVE SelfAndAncestors(_)
SelfAndAncestors(n) ==
    IF parentElement[n] = NoParent THEN {n}
    ELSE {n} \cup SelfAndAncestors(parentElement[n])

DisplayNone(el) == \E n \in SelfAndAncestors(el) : display[n] = "none"

\* the element's points, doubled so that the midpoint is an integer
Top2(el) == 2 * rect[el].top
Bottom2(el) == 2 * (rect[el].top + rect[el].height)
Center2(el) == 2 * rect[el].top + rect[el].height

\* the doubled point a position is tested against under direction dir
MappedPoint2(el, pos, dir) ==
    IF pos = "center" THEN Center2(el)
    ELSE IF (pos = "start") = (dir = "down") THEN Top2(el)
    ELSE Bottom2(el)

\* the open interval (0, viewportHeight), on doubled points
Contained2(x2) == 0 < x2 /\ x2 < 2 * innerHeight

\* the log line the specification gives for (pos, ident)
TemplateLine(pos, ident) ==
    [prefix |-> "Column with id:", id |-> ident,
     suffix |-> CASE pos = "start" -> " started to become visible on the page."
                  [] pos = "center" -> " is now more than 50% visible on the page."
                  [] pos = "end" -> " is now fully visible on the page."]

\* how many times the line of (el, pos) was logged
Logged(el, pos) == CopiesIn(TemplateLine(pos, id[el]), console)

\* the offset the comparison of the next run sees as the previous one
PreviousOffset == IF lastScrollStart = Null THEN 0 ELSE lastScrollStart[1]

(***************************************************************************)
(* C1: once-only.  Over any sequence of handler runs, the log line of a    *)
(* tracked element and position is written at most once.                   *)
(***************************************************************************)
C1_OnceOnly ==
    \A el \in Tracked, pos \in PositionSet : Logged(el, pos) <= 1

\* a run in which A is visible, its start point is contained and its start
\* notification had already been delivered by an earlier run
C1_Witness ==
    /\ ran
    /\ ~DisplayNone("A")
    /\ Contained2(MappedPoint2("A", "start", scrollDirection))
    /\ ~Fired("A", "start")
    /\ Logged("A", "start") = 1

(***************************************************************************)
(* C2: firing condition.  In a run, for an element that is not hidden, a   *)
(* position fires exactly when its mapped point is strictly inside         *)
(* (0, viewportHeight) and the pair had not fired before: what fires is    *)
(* contained and logged for the first time, and what is contained and did  *)
(* not fire had been logged before.                                        *)
(***************************************************************************)
C2_FiringCondition ==
    ran =>
        \A el \in Tracked : ~DisplayNone(el) =>
            \A pos \in PositionSet :
                LET contained == Contained2(MappedPoint2(el, pos, scrollDirection))
                IN  /\ Fired(el, pos) => contained /\ Logged(el, pos) = 1
                    /\ (contained /\ ~Fired(el, pos)) => Logged(el, pos) >= 1
                    /\ (~contained) => ~Fired(el, pos)

\* a downward run in which all three points are contained and all three fire
C2_Witness ==
    /\ ran
    /\ scrollDirection = "down"
    /\ \A pos \in PositionSet :
           Contained2(MappedPoint2("A", pos, "down")) /\ Fired("A", pos)

(***************************************************************************)
(* C3: hidden suppresses all.  In a run in which a tracked element or one  *)
(* of its ancestors has display none, no notification of that element is   *)
(* delivered and none of its three latches changes, whatever its geometry. *)
(***************************************************************************)
C3_HiddenSuppresses ==
    [][ran' =>
          \A el \in Tracked : DisplayNone(el)' =>
              /\ listeners'[el] = listeners[el]
              /\ \A pos \in PositionSet : ~Fired(el, pos)']_vars

\* a run with B hidden through its container only, its three points
\* contained, and its three latches still available afterwards
C3_Witness ==
    /\ ran
    /\ display["B"] = "block"
    /\ DisplayNone("B")
    /\ \A pos \in PositionSet :
           Contained2(MappedPoint2("B", pos, scrollDirection)) /\ listeners["B"][pos]

(***************************************************************************)
(* C4: boundary exclusion.  No position fires in a run in which its mapped *)
(* point is exactly 0 or exactly the viewport height.                      *)
(***************************************************************************)
C4_BoundaryExclusion ==
    ran =>
        \A el \in Tracked, pos \in PositionSet :
            Fired(el, pos) =>
                LET x2 == MappedPoint2(el, pos, scrollDirection)
                IN  x2 # 0 /\ x2 # 2 * innerHeight

\* a downward run of a visible column whose bottom is exactly the viewport
\* height: start fires, end does not and stays available
C4_Witness ==
    /\ ran
    /\ scrollDirection = "down"
    /\ ~DisplayNone("A")
    /\ Bottom2("A") = 2 * innerHeight
    /\ Fired("A", "start")
    /\ listeners["A"]["end"]

(***************************************************************************)
(* C5: direction-conditioned mapping.  Under down, start is tested against *)
(* the top and end against the bottom; under up, start against the bottom  *)
(* and end against the top; center against top + height/2 in both.  For    *)
(* the same geometry and viewport the two directions swap exactly the      *)
(* start and end tests.                                                    *)
(***************************************************************************)
C5_DirectionMapping ==
    \A el \in Tracked :
        LET p == Predictates(el, innerHeight)
            top == Contained2(Top2(el))
            center == Contained2(Center2(el))
            bottom == Contained2(Bottom2(el))
        IN  /\ p.down = [isStartVisible |-> top, isCenterVisible |-> center,
                         isEndVisible |-> bottom]
            /\ p.up = [isStartVisible |-> bottom, isCenterVisible |-> center,
                       isEndVisible |-> top]
            /\ (ran /\ ~DisplayNone(el)) =>
                   /\ Fired(el, "start") =>
                          IF scrollDirection = "down" THEN top ELSE bottom
                   /\ Fired(el, "end") =>
                          IF scrollDirection = "down" THEN bottom ELSE top
                   /\ Fired(el, "center") => center

\* an upward run in which start fires on the bottom while the top is outside
C5_Witness ==
    /\ ran
    /\ scrollDirection = "up"
    /\ Fired("A", "start")
    /\ Contained2(Bottom2("A"))
    /\ ~Contained2(Top2("A"))

(***************************************************************************)
(* C6: direction resolution.  In every run the direction is down exactly   *)
(* when the offset of that run is strictly greater than the stored         *)
(* previous offset, an unset one counting as 0; otherwise it is up.        *)
(***************************************************************************)
C6_DirectionResolution ==
    [][ran' =>
          /\ scrollDirection' \in {"down", "up"}
          /\ (scrollDirection' = "down") <=> (pageYOffset' > PreviousOffset)]_vars

\* a run at a positive offset that is not above the stored one resolves to up
C6_Witness ==
    /\ ran
    /\ pageYOffset > 0
    /\ scrollDirection = "up"

(***************************************************************************)
(* C7: offset clamp.  After every run the stored previous offset is        *)
(* max(0, st) for the offset st of that run, hence never negative once     *)
(* set.                                                                    *)
(***************************************************************************)
C7_OffsetClamp ==
    /\ ran => lastScrollStart =
                  Num(IF pageYOffset > 0 THEN pageYOffset ELSE 0)
    /\ lastScrollStart # Null => lastScrollStart[1] >= 0

\* a run at a negative offset stores 0
C7_Witness ==
    /\ ran
    /\ pageYOffset < 0
    /\ lastScrollStart = Num(0)

(***************************************************************************)
(* C8: log output.  Every delivered notification of (element, position)    *)
(* writes exactly one line, the template of that position with the id of   *)
(* that element; the console holds no other line, and at most three lines  *)
(* per element.                                                            *)
(***************************************************************************)
C8_LogOutput ==
    /\ \A i \in DOMAIN emitted :
           emitted[i].line = TemplateLine(emitted[i].position, id[emitted[i].el])
    /\ \A el \in Tracked, pos \in PositionSet :
           Logged(el, pos) = IF listeners[el][pos] THEN 0 ELSE 1
    /\ \A line \in BagToSet(console) :
           \E el \in Tracked, pos \in PositionSet : line = TemplateLine(pos, id[el])
    /\ \A el \in Tracked :
           BagCardinality([line \in {l \in BagToSet(console) : l.id = id[el]} |->
                               console[line]]) <= 3
    /\ BagCardinality(console) =
           Cardinality({pair \in Tracked \X PositionSet :
                            ~listeners[pair[1]][pair[2]]})

\* both columns have delivered all three notifications
C8_Witness ==
    /\ BagCardinality(console) = 6
    /\ Len(emitted) > 0

(***************************************************************************)
(* C9: per-element failure isolation.  If a query fails for one tracked    *)
(* element during a run, none of its notifiers fire, no failure leaves the *)
(* run, and every other tracked element is still evaluated in that run.    *)
(***************************************************************************)
C9_FailureIsolated ==
    ran =>
        /\ ~thrown
        /\ \A el \in Tracked :
               IF el \in faulty
               THEN \A pos \in PositionSet : ~Fired(el, pos)
               ELSE ~DisplayNone(el) =>
                        \A pos \in PositionSet :
                            Contained2(MappedPoint2(el, pos, scrollDirection))
                                => ~listeners[el][pos]

(***************************************************************************)
(* C10: 'fully visible'.  Whenever the end notification fires for an       *)
(* element in a run, the column lies fully in the viewport in that run:    *)
(* its top is not above the viewport and its bottom is not below it.       *)
(***************************************************************************)
C10_FullyVisibleOnEnd ==
    ran =>
        \A el \in Tracked :
            Fired(el, "end") =>
                /\ 0 <= rect[el].top
                /\ rect[el].top + rect[el].height <= innerHeight

(***************************************************************************)
(* C11: visibility test.  On every finite ancestor chain isHidden ends and *)
(* reports hidden (a truthy value) exactly when the element or one of its  *)
(* ancestors up to the root has display none; an element with no parent    *)
(* that is not hidden itself is reported not hidden.                       *)
(***************************************************************************)
C11_VisibilityTest ==
    \A n \in Nodes :
        /\ IsHidden(n) \in {"true", "undefined"}
        /\ (IsHidden(n) = "true") <=> DisplayNone(n)
        /\ (parentElement[n] = NoParent /\ display[n] # "none")
               => IsHidden(n) = "undefined"

\* a run in which B is hidden only through the container two levels up:
\* isHidden(B) walks B, A and the container, and B keeps its three latches
\* although its three points are contained
C11_Witness ==
    /\ ran
    /\ parentElement["B"] = "A"
    /\ display["B"] = "block" /\ display["A"] = "block" /\ display["page"] = "none"
    /\ IsHidden("B") = "true"
    /\ \A pos \in PositionSet :
           Contained2(MappedPoint2("B", pos, scrollDirection)) /\ listeners["B"][pos]

(***************************************************************************)
(* C12: notifier independence.  In a run, the latch and the log line of a  *)
(* pair (element, position) change only by that pair's own delivery, which *)
(* needs the element shown and the pair's own point contained: a delivery  *)
(* to another position, or to another tracked element (an ancestor or a    *)
(* descendant included), changes neither; every delivery of the run        *)
(* changes exactly one latch.                                              *)
(***************************************************************************)
C12_NotifierIndependence ==
    [][ran' =>
          /\ \A el \in Tracked, pos \in PositionSet :
                 (\/ listeners'[el][pos] # listeners[el][pos]
                  \/ Logged(el, pos)' # Logged(el, pos))
                     => /\ Fired(el, pos)'
                        /\ ~DisplayNone(el)'
                        /\ Contained2(MappedPoint2(el, pos, scrollDirection))'
          /\ Len(emitted') =
                 Cardinality({pair \in Tracked \X PositionSet :
                                  listeners'[pair[1]][pair[2]]
                                      # listeners[pair[1]][pair[2]]})]_vars

\* a run that delivers the start of the nested column B and leaves the
\* start latch of its ancestor A and the end latch of B attached
C12_Witness ==
    /\ ran
    /\ parentElement["B"] = "A"
    /\ Fired("B", "start")
    /\ \A pos \in PositionSet : ~Fired("A", pos)
    /\ listeners["A"]["start"]
    /\ listeners["B"]["end"]

(***************************************************************************)
(* C13: fixed capture.  The tracked elements are those captured at         *)
(* construction and no run changes them; a .column element added to the    *)
(* page afterwards has no listener, is never notified and never produces   *)
(* a log line, whatever its geometry.                                      *)
(***************************************************************************)
C13_FixedCapture ==
    /\ columns = <<"A">>
    /\ DOMAIN listeners = {"A"}
    /\ \A n \in DOMAIN rect \ {"A"} :
           /\ \A i \in DOMAIN emitted : emitted[i].el # n
           /\ \A line \in BagToSet(console) : line.id # id[n]

\* a run that notifies A while the later column B is in the document, shown,
\* with its three points contained
C13_Witness ==
    /\ ran
    /\ "B" \in DOMAIN rect
    /\ ~DisplayNone("B")
    /\ \A pos \in PositionSet : Contained2(MappedPoint2("B", pos, scrollDirection))
    /\ Len(emitted) > 0

(***************************************************************************)
(* C14: consistent snapshot.  In a run, the start, center and end tests of *)
(* an element are all decided by one reading of the viewport height and    *)
(* one reading of the element's rectangle, taken before any of its         *)
(* notifications is delivered: each position fires exactly when its latch  *)
(* was available before the run and its point is contained in that one     *)
(* snapshot, whether or not the other two notifications were delivered.    *)
(***************************************************************************)
C14_ConsistentSnapshot ==
    [][ran' =>
          \A el \in Tracked :
              LET viewport2 == 2 * innerHeight'
                  top2 == 2 * rect'[el].top
                  center2 == 2 * rect'[el].top + rect'[el].height
                  bottom2 == 2 * (rect'[el].top + rect'[el].height)
                  point2(pos) ==
                      IF pos = "center" THEN center2
                      ELSE IF (pos = "start") = (scrollDirection' = "down")
                      THEN top2 ELSE bottom2
              IN  \A pos \in PositionSet :
                      Fired(el, pos)' <=>
                          /\ listeners[el][pos]
                          /\ ~DisplayNone(el)'
                          /\ 0 < point2(pos) /\ point2(pos) < viewport2]_vars

\* a run that delivers start and end while center, contained too, had been
\* delivered by an earlier run
C14_Witness ==
    /\ ran
    /\ Fired("A", "start")
    /\ Fired("A", "end")
    /\ ~Fired("A", "center")
    /\ Contained2(Center2("A"))

(***************************************************************************)
(* C15: an unchanged offset resolves to up.  A run whose offset equals the *)
(* stored previous offset (an unset one counting as 0) sets the direction  *)
(* to up whatever it was before, so in that run start is tested against    *)
(* the element's bottom and end against its top.                           *)
(***************************************************************************)
C15_UnchangedOffsetIsUp ==
    [][(ran' /\ pageYOffset' = PreviousOffset) =>
          /\ scrollDirection' = "up"
          /\ \A el \in Tracked :
                 /\ Fired(el, "start")' => Contained2(Bottom2(el))'
                 /\ Fired(el, "end")' => Contained2(Top2(el))'
                 /\ (~DisplayNone(el)' /\ listeners[el]["start"]
                        /\ Contained2(Bottom2(el))') => Fired(el, "start")'
                 /\ (~DisplayNone(el)' /\ listeners[el]["end"]
                        /\ Contained2(Top2(el))') => Fired(el, "end")']_vars

\* the offset is the largest one, which only a downward scroll reaches, and
\* the direction is up: the run was a signal at that same offset; in it
\* start fired on the bottom while the top is outside the viewport
C15_Witness ==
    /\ ran
    /\ pageYOffset = MaxScroll
    /\ lastScrollStart = Num(MaxScroll)
    /\ scrollDirection = "up"
    /\ Fired("A", "start")
    /\ Contained2(Bottom2("A"))
    /\ ~Contained2(Top2("A"))

\* the place of el in the captured order
CapturedIndex(el) == CHOOSE i \in 1 .. Len(columns) : columns[i] = el
\* the place of a position in the order start, center, end
PositionRank(pos) == CASE pos = "start" -> 1 [] pos = "center" -> 2 [] pos = "end" -> 3

(***************************************************************************)
(* C16: delivery order.  In a run the direction is set before any element  *)
(* is examined and is the same for all of them; the elements are handled   *)
(* in their captured order, and the lines of one element are logged in the *)
(* order start, center, end, all before the lines of the next element.     *)
(***************************************************************************)
C16_DeliveryOrder ==
    ran =>
        /\ \A i, j \in DOMAIN emitted :
               i < j =>
                   \/ CapturedIndex(emitted[i].el) < CapturedIndex(emitted[j].el)
                   \/ /\ emitted[i].el = emitted[j].el
                      /\ PositionRank(emitted[i].position)
                             < PositionRank(emitted[j].position)
        /\ \A i \in DOMAIN emitted :
               Contained2(MappedPoint2(emitted[i].el, emitted[i].position,
                                       scrollDirection))

\* a run that logs the three lines of A and then the three lines of B
C16_Witness ==
    /\ ran
    /\ Len(emitted) = 6
    /\ emitted[1].el = "A" /\ emitted[3].position = "end"
    /\ emitted[4].el = "B" /\ emitted[4].position = "start"

====
